---- MODULE Spec2Model ----
(***************************************************************************)
(* Model of Overtime_Code.py: load_data coerces the rows of the timecard   *)
(* workbook, generate_timecard_report aggregates them per (Location,       *)
(* EmpID, Week Start[, Date]), reconciles the overtime owed and writes one *)
(* CSV row per employee-week.                                              *)
(*                                                                         *)
(* Conventions of the model                                                *)
(*   - a date is a day count since 1970-01-01 (a Thursday);                *)
(*   - a cell that pandas may hold as NaN/NaT is a set: {} is the missing  *)
(*     value, {v} the value v;                                             *)
(*   - hours are whole units; a mean is an exact fraction [num, den] in    *)
(*     lowest terms (floating point rounding is not modelled);             *)
(*   - a data frame produced by groupby/merge is the set of its rows;      *)
(*   - a text cell is a sequence: <<>> is the empty string.                *)
(***************************************************************************)
EXTENDS Integers, Sequences, FiniteSets

VARIABLES df, weekStart, report, csv, pc

vars == <<df, weekStart, report, csv, pc>>

----------------------------------------------------------------------------
(* Bounds of the model *)

\* largest number of rows of the workbook
MaxRows == 2

\* Saturday 1970-01-03, Sunday 1970-01-04 and Monday 1970-01-05
Dates == {2, 3, 4}

Locations == {"A", "B"}

EmpIDs == {1, 2}

HourValues == {20, 24}

SchedValues == {16, 24}

RawPayCodes == {"Regular", " overtime ", "holiday"}

----------------------------------------------------------------------------
(* Exact fractions *)

RECURSIVE Gcd(_, _)
Gcd(a, b) == IF b = 0 THEN a ELSE Gcd(b, a % b)

Abs(x) == IF x < 0 THEN -x ELSE x

Rat(n, d) ==
    LET g == Gcd(Abs(n), d)
    IN  [num |-> n \div g, den |-> d \div g]

RInt(n) == [num |-> n, den |-> 1]

RAdd(a, b) == Rat(a.num * b.den + b.num * a.den, a.den * b.den)

RSub(a, b) == Rat(a.num * b.den - b.num * a.den, a.den * b.den)

RAbs(a) == [num |-> Abs(a.num), den |-> a.den]

RLe(a, b) == a.num * b.den <= b.num * a.den

RGt(a, b) == ~RLe(a, b)

RZero == RInt(0)

RECURSIVE RSum(_, _)
\* sum of f[x] over the finite set S
RSum(f, S) ==
    IF S = {} THEN RZero
    ELSE LET x == CHOOSE y \in S : TRUE
         IN  RAdd(f[x], RSum(f, S \ {x}))

RECURSIVE ISum(_, _)
ISum(f, S) ==
    IF S = {} THEN 0
    ELSE LET x == CHOOSE y \in S : TRUE
         IN  f[x] + ISum(f, S \ {x})

----------------------------------------------------------------------------
(* Missing values *)

NA == {}

IsNA(c) == c = {}

Val(c) == CHOOSE x \in c : TRUE

----------------------------------------------------------------------------
(* load_data: the cells of the workbook and their coercion *)

\* a workbook cell: ok says whether pandas can parse it, v is the parsed value
RawDates == [ok : {TRUE}, v : Dates] \cup {[ok |-> FALSE, v |-> 0]}

RawHours == [ok : {TRUE}, v : HourValues] \cup {[ok |-> FALSE, v |-> 0]}

RawSched == [ok : {TRUE}, v : SchedValues] \cup {[ok |-> FALSE, v |-> 0]}

RawRows ==
    [Date : RawDates, EmpID : EmpIDs, Hours : RawHours, PayCode : RawPayCodes,
     Location : Locations, RegularHours : RawSched]

\* pd.to_datetime(..., errors='coerce'): an unparseable date becomes NaT
ToDatetime(c) == IF c.ok THEN {c.v} ELSE NA

\* pd.to_numeric(..., errors='coerce'): an unparseable number becomes NaN
ToNumeric(c) == IF c.ok THEN {c.v} ELSE NA

\* .str.lower().str.strip() on the pay codes of the workbook
NormalizePayCode(s) ==
    CASE s = "Regular" -> "regular"
      [] s = " overtime " -> "overtime"
      [] OTHER -> s

load_data(raw) ==
    [Date |-> ToDatetime(raw.Date),
     EmpID |-> raw.EmpID,
     Hours |-> ToNumeric(raw.Hours),
     PayCode |-> NormalizePayCode(raw.PayCode),
     Location |-> raw.Location,
     RegularHours |-> ToNumeric(raw.RegularHours)]

----------------------------------------------------------------------------
(* generate_timecard_report: week assignment *)

\* Series.dt.to_period('W-SAT'): the ordinal of the week ending on the
\* Saturday on or after day d (ordinal 0 ends on 1970-01-03)
ToPeriodWrongAnchor(d) == (d + 3) \div 7

ToPeriod(d) == (d + 4) \div 7

\* Period.start_time of a W-SAT period: its first day
StartTime(p) == 7 * p - 4

\* df['Week Start']: NaT stays NaT
WeekStartColumn(d) ==
    [i \in 1..Len(d) |->
        IF IsNA(d[i].Date) THEN NA ELSE {StartTime(ToPeriod(Val(d[i].Date)))}]

day_order ==
    <<"Sunday", "Monday", "Tuesday", "Wednesday", "Thursday", "Friday", "Saturday">>

\* Series.dt.day_name()
DayNameMondayFirst(d) == day_order[((d + 3) % 7) + 1]

DayName(d) == day_order[((d + 4) % 7) + 1]

\* strftime('%a %m/%d'): the weekday and the calendar day
DayLabel(d) == <<DayName(d), d>>

----------------------------------------------------------------------------
(* generate_timecard_report: grouping *)

\* rows a groupby on [..., 'Week Start'] keeps: a NaT key drops the row
Dated(d, ws) == {i \in 1..Len(d) : ~IsNA(ws[i])}

WithCode(d, ws, code) == {i \in Dated(d, ws) : d[i].PayCode = code}

\* the grouping key ['Location','EmpID','Week Start'] of row i
KeyOfNoLocation(d, ws, i) ==
    [Location |-> "A", EmpID |-> d[i].EmpID, WeekStart |-> Val(ws[i])]

KeyOf(d, ws, i) ==
    [Location |-> d[i].Location, EmpID |-> d[i].EmpID, WeekStart |-> Val(ws[i])]

\* the grouping key [..., 'Date'] of row i
DayKeyOf(d, ws, i) == [key |-> KeyOf(d, ws, i), Date |-> Val(d[i].Date)]

\* ['Hours'].sum() over the rows I: NaN is skipped, an empty sum is 0
SumHours(d, I) ==
    LET J == {i \in I : ~IsNA(d[i].Hours)}
    IN  ISum([i \in J |-> Val(d[i].Hours)], J)

\* ['Regular Hours'].mean() over the rows I: NaN is skipped, and the mean of
\* no value is NaN
MeanRegularHours(d, I) ==
    LET J == {i \in I : ~IsNA(d[i].RegularHours)}
    IN  IF J = {} THEN NA
        ELSE {Rat(ISum([i \in J |-> Val(d[i].RegularHours)], J), Cardinality(J))}

weekly_avg_reg(d, ws) ==
    {[key |-> k,
      Sched_Reg |-> MeanRegularHours(d, {i \in Dated(d, ws) : KeyOf(d, ws, i) = k})] :
        k \in {KeyOf(d, ws, i) : i \in Dated(d, ws)}}

\* groupby([...,'Date'])['Hours'].sum() over the rows I
DailySum(d, ws, I) ==
    {[key |-> dk.key, Date |-> dk.Date,
      Hours |-> SumHours(d, {i \in I : DayKeyOf(d, ws, i) = dk})] :
        dk \in {DayKeyOf(d, ws, i) : i \in I}}

daily_total(d, ws) == DailySum(d, ws, Dated(d, ws))

daily_reg(d, ws) == DailySum(d, ws, WithCode(d, ws, "regular"))

daily_ot(d, ws) == DailySum(d, ws, WithCode(d, ws, "overtime"))

----------------------------------------------------------------------------
(* generate_timecard_report: daily calculations *)

\* the cells a left merge gives a row whose partners hold the cells M:
\* one row per partner, and one row holding NaN when there is no partner
MergedCells(M) == IF M = {} THEN {NA} ELSE M

\* Series.fillna(v)
FillNa(c, v) == IF IsNA(c) THEN v ELSE Val(c)

\* max(0, Total_Hours - Sched_Reg); with Sched_Reg NaN the difference is NaN,
\* NaN > 0 is false and Python's max keeps its first argument, 0
ProjOTNoFloor(total, sched) ==
    IF IsNA(sched) THEN RZero ELSE RSub(RInt(total), Val(sched))

ProjOT(total, sched) ==
    IF IsNA(sched) THEN RZero
    ELSE LET diff == RSub(RInt(total), Val(sched))
         IN  IF RGt(diff, RZero) THEN diff ELSE RZero

\* the 'Day Info' text: weekday and day, total, Reg, OT Paid, Proj OT
DayInfo(date, total, reg, ot, proj) == DayLabel(date) \o <<total, reg, ot, proj>>

daily(d, ws) ==
    LET T == daily_total(d, ws)
        R == daily_reg(d, ws)
        O == daily_ot(d, ws)
        A == weekly_avg_reg(d, ws)
    IN  UNION {
          UNION {
            UNION {
              {[key |-> t.key, Date |-> t.Date, Total_Hours |-> t.Hours,
                Reg |-> FillNa(reg, 0), OT_Paid |-> FillNa(ot, 0),
                Sched_Reg |-> sched,
                Proj_OT |-> ProjOT(t.Hours, sched),
                DayInfo |-> DayInfo(t.Date, t.Hours, FillNa(reg, 0), FillNa(ot, 0),
                                    ProjOT(t.Hours, sched))] :
                  sched \in MergedCells({w.Sched_Reg : w \in {x \in A : x.key = t.key}})} :
              ot \in MergedCells({{r.Hours} : r \in
                          {x \in O : x.key = t.key /\ x.Date = t.Date}})} :
            reg \in MergedCells({{r.Hours} : r \in
                        {x \in R : x.key = t.key /\ x.Date = t.Date}})} :
          t \in T}

----------------------------------------------------------------------------
(* generate_timecard_report: the pivot *)

DayNames == {day_order[j] : j \in 1..Len(day_order)}

\* aggfunc='first' over the daily rows M of one cell, daily being sorted by
\* its grouping keys: the row of the earliest date
First(M) == CHOOSE r \in M : \A q \in M : r.Date <= q.Date

\* pivot_table(index=key, columns=day_name, values='Day Info'), then an ""
\* column for every name of day_order that is no column of the pivot
pivot(dly) ==
    LET columns == {DayName(r.Date) : r \in dly}
        cell(k, c) ==
            LET M == {r \in dly : r.key = k /\ DayName(r.Date) = c}
            IN  IF M = {} THEN NA ELSE {First(M).DayInfo}
    IN  {[key |-> k,
          days |-> [c \in DayNames |->
                      IF c \in columns THEN cell(k, c) ELSE {<<>>}]] :
            k \in {r.key : r \in dly}}

----------------------------------------------------------------------------
(* generate_timecard_report: weekly aggregates *)

\* groupby(key)['Hours'].sum() over the rows I
WeeklySum(d, ws, I) ==
    {[key |-> k, Hours |-> SumHours(d, {i \in I : KeyOf(d, ws, i) = k})] :
        k \in {KeyOf(d, ws, i) : i \in I}}

reg_week(d, ws) == WeeklySum(d, ws, WithCode(d, ws, "regular"))

ot_week(d, ws) == WeeklySum(d, ws, WithCode(d, ws, "overtime"))

\* groupby(key)['Proj_OT'].sum() over daily
weekly_proj_ot(dly) ==
    {[key |-> k,
      Proj_OT |-> LET M == {r \in dly : r.key = k}
                  IN  RSum([r \in M |-> r.Proj_OT], M)] :
        k \in {r.key : r \in dly}}

OvertimeThreshold == 40

\* the rule as the docstring words it
compute_ot_owed_docstring(total, paid, proj) ==
    IF total <= OvertimeThreshold THEN proj
    ELSE LET diff == RSub(RInt(paid), proj)
         IN  IF RGt(diff, RZero) THEN diff ELSE RZero

compute_ot_owed(total, paid, proj) ==
    IF total <= OvertimeThreshold THEN proj
    ELSE LET diff == RSub(RInt(paid), proj)
         IN  IF RGt(diff, RZero) THEN RZero ELSE RAbs(diff)

\* outer merge of reg_week and ot_week, the totals, the left merge of
\* weekly_proj_ot and the overtime owed
weekly_agg(d, ws, dly) ==
    LET R == reg_week(d, ws)
        O == ot_week(d, ws)
        P == weekly_proj_ot(dly)
    IN  UNION {
          UNION {
            UNION {
              {[key |-> k,
                WeeklyRegularHours |-> FillNa(reg, 0),
                WeeklyOTPaid |-> FillNa(ot, 0),
                WeeklyTotalHours |-> FillNa(reg, 0) + FillNa(ot, 0),
                WeeklyProjOT |-> FillNa(proj, RZero),
                OvertimeOwed |-> compute_ot_owed(FillNa(reg, 0) + FillNa(ot, 0),
                                                 FillNa(ot, 0), FillNa(proj, RZero))] :
                  proj \in MergedCells({{x.Proj_OT} : x \in {y \in P : y.key = k}})} :
              ot \in MergedCells({{x.Hours} : x \in {y \in O : y.key = k}})} :
            reg \in MergedCells({{x.Hours} : x \in {y \in R : y.key = k}})} :
          k \in {x.key : x \in R} \cup {x.key : x \in O}}

----------------------------------------------------------------------------
(* generate_timecard_report: the report and its CSV file *)

\* pd.merge(pivot, weekly_agg, how='left'): a week without a row in
\* weekly_agg gets NaN in the five weekly columns
Report(d, ws) ==
    LET dly == daily(d, ws)
        P == pivot(dly)
        A == weekly_agg(d, ws, dly)
    IN  UNION {
          LET W == {w \in A : w.key = p.key}
          IN  IF W = {}
              THEN {[EmpID |-> p.key.EmpID, Location |-> p.key.Location,
                     WeekStart |-> p.key.WeekStart, days |-> p.days,
                     WeeklyRegularHours |-> NA, WeeklyOTPaid |-> NA,
                     WeeklyTotalHours |-> NA, WeeklyProjOT |-> NA,
                     OvertimeOwed |-> NA]}
              ELSE {[EmpID |-> p.key.EmpID, Location |-> p.key.Location,
                     WeekStart |-> p.key.WeekStart, days |-> p.days,
                     WeeklyRegularHours |-> {w.WeeklyRegularHours},
                     WeeklyOTPaid |-> {w.WeeklyOTPaid},
                     WeeklyTotalHours |-> {w.WeeklyTotalHours},
                     WeeklyProjOT |-> {w.WeeklyProjOT},
                     OvertimeOwed |-> {w.OvertimeOwed}] : w \in W} :
          p \in P}

final_cols ==
    <<"EmpID", "Location", "Week Start">> \o day_order \o
    <<"Weekly Regular Hours", "Weekly OT Paid", "Weekly Total Hours",
      "Weekly Proj OT", "Overtime Owed">>

\* to_csv writes a missing value as the empty field (na_rep = '')
TextField(c) == IF IsNA(c) THEN <<>> ELSE Val(c)

NumField(c) == IF IsNA(c) THEN <<>> ELSE <<Val(c)>>

Column(r, name) ==
    CASE name = "EmpID" -> <<r.EmpID>>
      [] name = "Location" -> <<r.Location>>
      [] name = "Week Start" -> <<r.WeekStart>>
      [] name = "Weekly Regular Hours" -> NumField(r.WeeklyRegularHours)
      [] name = "Weekly OT Paid" -> NumField(r.WeeklyOTPaid)
      [] name = "Weekly Total Hours" -> NumField(r.WeeklyTotalHours)
      [] name = "Weekly Proj OT" -> NumField(r.WeeklyProjOT)
      [] name = "Overtime Owed" -> NumField(r.OvertimeOwed)
      [] OTHER -> TextField(r.days[name])

\* report[final_cols].to_csv(output_file, index=False)
to_csv(rep) ==
    [header |-> final_cols,
     rows |-> {[j \in 1..Len(final_cols) |-> Column(r, final_cols[j])] : r \in rep}]

----------------------------------------------------------------------------
(* The program *)

NoFile == [header |-> <<>>, rows |-> {}]

Init ==
    /\ df = <<>>
    /\ weekStart = <<>>
    /\ report = {}
    /\ csv = NoFile
    /\ pc = "load"

\* load_data, one row of the workbook at a time
LoadRow(raw) ==
    /\ pc = "load"
    /\ Len(df) < MaxRows
    /\ df' = Append(df, load_data(raw))
    /\ UNCHANGED <<weekStart, report, csv, pc>>

\* generate_timecard_report on the loaded table (main reads a workbook that
\* has rows: the table without any row is not explored)
GenerateReport ==
    /\ pc = "load"
    /\ Len(df) >= 1
    /\ weekStart' = WeekStartColumn(df)
    /\ report' = Report(df, weekStart')
    /\ csv' = to_csv(report')
    /\ pc' = "done"
    /\ UNCHANGED df

\* line 74 applies `lambda r: r.start_time` to every element of the period
\* column. Where pandas maps the lambda element by element (2.1 and later)
\* the NaT of a missing date has no attribute start_time and the call raises
\* AttributeError before anything is written; where pandas first tries the
\* lambda on the whole index (1.x) NaT stays NaT and GenerateReport runs.
GenerateAborts ==
    /\ pc = "load"
    /\ \E i \in 1..Len(df) : IsNA(df[i].Date)
    /\ pc' = "aborted"
    /\ UNCHANGED <<df, weekStart, report, csv>>

Next ==
    \/ \E raw \in RawRows : LoadRow(raw)
    \/ GenerateReport
    \/ GenerateAborts

Spec == Init /\ [][Next]_vars

----------------------------------------------------------------------------
(* The program on two families of workbooks, small enough to be explored   *)
(* with one more row than MaxRows.                                         *)

\* one employee at one location, every combination of hours, pay code and
\* scheduled hours on a Sunday and the Monday after it, and one undated row
HoursRows ==
    {r \in RawRows :
        /\ r.Location = "A" /\ r.EmpID = 1
        /\ \/ r.Date.ok /\ r.Date.v \in {3, 4}
           \/ /\ ~r.Date.ok
              /\ r.Hours = [ok |-> TRUE, v |-> 20]
              /\ r.PayCode = "Regular"
              /\ r.RegularHours = [ok |-> TRUE, v |-> 16]}

NextHours ==
    \/ \E raw \in HoursRows : LoadRow(raw)
    \/ GenerateReport
    \/ GenerateAborts

SpecHours == Init /\ [][NextHours]_vars

\* every location, employee, date (or none) and pay code, with 20 hours
\* worked and 16 scheduled
WeeksRows ==
    {r \in RawRows :
        /\ r.Hours = [ok |-> TRUE, v |-> 20]
        /\ r.RegularHours = [ok |-> TRUE, v |-> 16]}

NextWeeks ==
    \/ \E raw \in WeeksRows : LoadRow(raw)
    \/ GenerateReport
    \/ GenerateAborts

SpecWeeks == Init /\ [][NextWeeks]_vars

----------------------------------------------------------------------------
(* What the properties are stated with: the input table read directly *)

Rows == 1..Len(df)

DatedRows == {i \in Rows : df[i].Date # {}}

DateOf(i) == CHOOSE x \in df[i].Date : TRUE

\* the Sunday on or before day x (1970-01-04, day 3, was a Sunday)
SundayOnOrBefore(x) == CHOOSE w \in (x - 6)..x : (w - 3) % 7 = 0

\* the dated entries of a WeekKey, and those of one of its days
EntriesOfWeek(loc, emp, w) ==
    {i \in DatedRows : /\ df[i].Location = loc
                       /\ df[i].EmpID = emp
                       /\ SundayOnOrBefore(DateOf(i)) = w}

EntriesOfDay(loc, emp, x) ==
    {i \in DatedRows : df[i].Location = loc /\ df[i].EmpID = emp /\ DateOf(i) = x}

RECURSIVE HoursOf(_)
\* the hours of the entries I, a missing value counting 0
HoursOf(I) ==
    IF I = {} THEN 0
    ELSE LET i == CHOOSE j \in I : TRUE
         IN  (IF df[i].Hours = {} THEN 0 ELSE CHOOSE h \in df[i].Hours : TRUE)
             + HoursOf(I \ {i})

Scheduled(I) == {i \in I : df[i].RegularHours # {}}

RECURSIVE ScheduledSum(_)
ScheduledSum(I) ==
    IF I = {} THEN 0
    ELSE LET i == CHOOSE j \in I : TRUE
         IN  (CHOOSE h \in df[i].RegularHours : TRUE) + ScheduledSum(I \ {i})

\* the columns of a row of the CSV file, by the header of the file
Col(name) == CHOOSE j \in 1..Len(csv.header) : csv.header[j] = name

ColEmpID == Col("EmpID")

ColLocation == Col("Location")

ColWeekStart == Col("Week Start")

ColSunday == Col("Sunday")

ColProjOT == Col("Weekly Proj OT")

ColOwed == Col("Overtime Owed")

WeekEntriesOfRow(row) ==
    EntriesOfWeek(row[ColLocation][1], row[ColEmpID][1], row[ColWeekStart][1])

\* the day fields of a row that are not empty
DayCells(row) == {j \in 0..6 : row[ColSunday + j] # <<>>}

\* a report row that carries weekly aggregates
HasWeekly(r) == r.WeeklyTotalHours # {}

----------------------------------------------------------------------------
C2_OwedNumberNonNegative ==
    pc = "done" =>
      \A row \in csv.rows :
        /\ row[ColOwed] # <<>>
        /\ RLe(RZero, row[ColOwed][1])

(* C3: the written report holds exactly one row per WeekKey (location,     *)
(* employee, week start) that has a dated entry, and no other row.         *)
C3_OneRowPerWeekKey ==
    pc = "done" =>
      LET keys == {<<df[i].EmpID, df[i].Location, SundayOnOrBefore(DateOf(i))>> :
                      i \in DatedRows}
          keyOf(row) == <<row[ColEmpID][1], row[ColLocation][1], row[ColWeekStart][1]>>
      IN  /\ \A k \in keys : Cardinality({row \in csv.rows : keyOf(row) = k}) = 1
          /\ \A row \in csv.rows : keyOf(row) \in keys

\* the same employee id in the same week at two locations: two rows
C3_Witness ==
    /\ pc = "done"
    /\ Cardinality(csv.rows) = 2
    /\ \E i, j \in DatedRows :
         /\ df[i].EmpID = df[j].EmpID
         /\ df[i].Location # df[j].Location
         /\ SundayOnOrBefore(DateOf(i)) = SundayOnOrBefore(DateOf(j))

(* C4: in every row of the written report, whatever the pay codes of the   *)
(* week, weekly projected overtime is the sum of the projected overtime    *)
(* of the week's days.                                                     *)
C4_WeeklyProjIsSumOfDays ==
    pc = "done" =>
      \A row \in csv.rows :
        /\ row[ColProjOT] # <<>>
        /\ row[ColProjOT][1] =
             RSum([j \in DayCells(row) |-> row[ColSunday + j][6]], DayCells(row))

(* C5: when every entry of a WeekKey misses its scheduled regular hours,   *)
(* each day's projected overtime in that week equals the day's total.      *)
C5_AllMissingScheduleIsZero ==
    pc = "done" =>
      \A row \in csv.rows :
        Scheduled(WeekEntriesOfRow(row)) = {} =>
          \A j \in DayCells(row) : row[ColSunday + j][6] = RInt(row[ColSunday + j][3])

C7_DocstringRule ==
    pc = "done" =>
      \A r \in report : (HasWeekly(r) /\ Val(r.WeeklyTotalHours) > 40) =>
        LET diff == RSub(RInt(Val(r.WeeklyOTPaid)), Val(r.WeeklyProjOT))
        IN  Val(r.OvertimeOwed) = (IF RGt(diff, RZero) THEN diff ELSE RZero)

\* the table without its entries of missing date
WithoutUndated == SelectSeq(df, LAMBDA e : e.Date # {})

\* the file is the one written for the table without its undated entries
SameAsWithoutUndated ==
    csv = to_csv(Report(WithoutUndated, WeekStartColumn(WithoutUndated)))

(* C8: an entry of missing date does not abort the run, and the report is  *)
(* the report of the same input without that entry.                        *)
C8_UndatedEntryIgnored ==
    /\ pc # "aborted"
    /\ pc = "done" => SameAsWithoutUndated

(* C9: every dated entry is assigned the week that starts on the Sunday on *)
(* or before its date (week_start <= date <= week_start + 6), by its date  *)
(* alone, and the report has its row under that week start.                *)
C9_WeekOfDate ==
    pc = "done" =>
      /\ \A i \in DatedRows :
           /\ weekStart[i] # {}
           /\ \A w \in weekStart[i] :
                /\ (w - 3) % 7 = 0
                /\ w <= DateOf(i) /\ DateOf(i) <= w + 6
                /\ \E row \in csv.rows :
                     /\ row[ColEmpID][1] = df[i].EmpID
                     /\ row[ColLocation][1] = df[i].Location
                     /\ row[ColWeekStart][1] = w
      /\ \A i, j \in DatedRows : df[i].Date = df[j].Date => weekStart[i] = weekStart[j]

\* a Saturday and the Sunday after it: two different weeks
C9_Witness ==
    /\ pc = "done"
    /\ \E i, j \in DatedRows :
         /\ DateOf(j) = DateOf(i) + 1
         /\ weekStart[j] = {DateOf(j)}
         /\ weekStart[i] = {DateOf(i) - 6}

(* C10: every row has the seven weekday columns in the order Sunday ..     *)
(* Saturday; the column of a weekday holds the summary of the date of the  *)
(* row's week on that weekday when the date has entries and is the empty   *)
(* string when it has none, whatever days have activity elsewhere.         *)
C10_WeekdayColumns ==
    pc = "done" =>
      /\ \A j \in 0..6 : csv.header[ColSunday + j] = day_order[j + 1]
      /\ ColSunday = ColWeekStart + 1
      /\ \A row \in csv.rows :
           /\ Len(row) = Len(csv.header)
           /\ \A j \in 0..6 :
                LET day == row[ColWeekStart][1] + j
                    E == EntriesOfDay(row[ColLocation][1], row[ColEmpID][1], day)
                    cell == row[ColSunday + j]
                IN  IF E = {} THEN cell = <<>>
                    ELSE /\ Len(cell) = 6
                         /\ cell[1] = day_order[j + 1]
                         /\ cell[2] = day
                         /\ cell[3] = HoursOf(E)
                         /\ cell[4] = HoursOf({i \in E : df[i].PayCode = "regular"})
                         /\ cell[5] = HoursOf({i \in E : df[i].PayCode = "overtime"})

\* two rows, a weekday with activity in one and none in the other: pandas
\* holds NaN in the second row's cell, and the file an empty field
C10_Witness ==
    /\ pc = "done"
    /\ \E r1, r2 \in report : \E c \in DayNames :
         /\ r1.days[c] = {}
         /\ r2.days[c] # {} /\ r2.days[c] # {<<>>}
    /\ \E r \in report : \E c \in DayNames : r.days[c] = {<<>>}

====
